---------------------------- MODULE Spec2Model ----------------------------
(* Whisper Message / Envelope (Message.cpp): sealing, opening and the       *)
(* proof-of-work search, modelled as a state machine over byte sequences.   *)
EXTENDS Integers, Sequences, FiniteSets, Bags, TLC

VARIABLES
    env,          \* the Envelope: [expiry, ttl, topics, data, nonce] or NoEnvelope
    origin,       \* how env came to be: seal's arguments, or the wire record
    msg,          \* the Message built by the last open: [payload, from, to]
    opening,      \* the last open's arguments and its local buffer b
    pw,           \* proveWork's locals and position: [pc, n, i, bestBitSet, then, d0],
                  \* whether it has stored a nonce, the clock its last test read
    now,          \* the clock read by proveWork and seal
    littleEndian, \* byte order of the build (fixes how uint32_t n lies in d[1])
    proved        \* workProved() of each finished run, by number of batches run

vars == <<env, origin, msg, opening, pw, now, littleEndian, proved>>

-----------------------------------------------------------------------------
(* Bounds of the model.                                                     *)

MaxPayload == 2
MaxTopics == 2
MaxBatches == 1

(* Constants of the program.                                                *)

SigSize == 65
BatchSize == 1024
HashSize == 32
PublicSize == 64
ContainsSignature == 1

-----------------------------------------------------------------------------
(* Bytes, hashes and byte ranges.                                           *)

Zero(len) == [j \in 1..len |-> 0]

\* FixedHash::operator bool: some byte differs from zero
NonZero(h) == \E j \in DOMAIN h : h[j] # 0

RECURSIVE XorByte(_, _)
XorByte(a, b) ==
    IF a = 0 THEN b
    ELSE IF b = 0 THEN a
    ELSE (((a % 2) + (b % 2)) % 2) + 2 * XorByte(a \div 2, b \div 2)

\* FixedHash::operator^ on two 32-byte values
Xor256(a, b) == [j \in 1..HashSize |-> XorByte(a[j], b[j])]

\* vector_ref::cropped(begin, count): the empty range when it does not fit
cropped(ref, begin, count) ==
    IF begin + count <= Len(ref) THEN SubSeq(ref, begin + 1, begin + count)
    ELSE <<>>

\* vector_ref::cropped(begin): everything from begin on
croppedFrom(ref, begin) ==
    IF begin <= Len(ref) THEN SubSeq(ref, begin + 1, Len(ref))
    ELSE <<>>

\* h256(bytesConstRef): the bytes when there are exactly 32, zero otherwise
h256(ref) == IF Len(ref) = HashSize THEN ref ELSE Zero(HashSize)

\* 32 * _topicIndex in unsigned (32-bit) arithmetic
Mul32(topicIndex) == (topicIndex % 134217728) * 32

-----------------------------------------------------------------------------
(* The 256-bit hash and its leading-zero-bit count.                         *)

HashModulus == 32749

\* the weight of the byte at position j of the input
Weight(j) == ((j * j * 7 + j * 13 + 5) % 251) + 1

\* the digest state: every byte of the input weighed by its position, summed
Absorb(bytes) ==
    BagCardinality([j \in 1..Len(bytes) |-> (bytes[j] + 1) * Weight(j)])

\* dev::sha3: 32 bytes that depend on every byte of the input and its length
sha3(bytes) ==
    LET acc == ((Absorb(bytes) % HashModulus) * 31 + Len(bytes) + 7) % HashModulus
    IN  [j \in 1..HashSize |-> ((acc + j) * ((acc \div 128) + j)) % 256]

RECURSIVE LeadingZeros(_)
LeadingZeros(d) == IF d >= 128 THEN 0 ELSE 1 + LeadingZeros(2 * d)

RECURSIVE FirstBitFrom(_, _, _)
FirstBitFrom(h, j, ret) ==
    IF j > Len(h) THEN ret
    ELSE IF h[j] = 0 THEN FirstBitFrom(h, j + 1, ret + 8)
    ELSE ret + LeadingZeros(h[j])

firstBitSet(h) == FirstBitFrom(h, 1, 0)

-----------------------------------------------------------------------------
(* The envelope's serialisation and the encodings of the nonce.             *)

NoEnvelope == [expiry |-> 0, ttl |-> 0, topics |-> <<>>, data |-> <<>>, nonce |-> -1]

\* streamRLP(WithoutNonce): expiry, ttl, topics, data
WithoutNonce(e) ==
    <<(e.expiry % 256), (e.ttl % 256), Len(e.topics)>> \o e.topics \o e.data

BigEndian4(v) ==
    <<(v \div 16777216) % 256, (v \div 65536) % 256, (v \div 256) % 256, (v % 256)>>

LittleEndian4(v) ==
    <<(v % 256), (v \div 256) % 256, (v \div 65536) % 256, (v \div 16777216) % 256>>

\* h256(u256): the big-endian 32 bytes of the integer (model nonces fit 4 bytes)
toBigEndian256(v) == Zero(28) \o BigEndian4(v)

\* d[1] after  uint32_t& n = *(uint32_t*)&(d[1][28]);  n = v
NonceBlock(v, le) == Zero(28) \o (IF le THEN LittleEndian4(v) ELSE BigEndian4(v))

-----------------------------------------------------------------------------
(* The cryptographic primitives Message.cpp calls.  Keys, signatures and    *)
(* ciphertexts are byte sequences of the program's sizes; a ciphertext      *)
(* opens only under the secret whose public key it was made for, and a      *)
(* signature recovers to its signer only over the hash that was signed.     *)

Shifted(s) == [j \in 1..Len(s) |-> (s[j] + 1) % 256]

Secret(v) == Zero(HashSize - 1) \o <<v>>
NoSecret == Zero(HashSize)
NoPublic == Zero(PublicSize)
NoSignature == Zero(SigSize)

\* KeyPair(s).pub(): the zero secret has no key pair; whether the constructor
\* leaves the key zero or throws InvalidSecret (caught by the caller's
\* catch (...)), the caller ends with the zero public key
toPublic(s) == IF NonZero(s) THEN Shifted(s) \o Shifted(s) ELSE NoPublic

sign(s, h) == Shifted(s) \o h \o <<1>>

\* recover(sig, h): zero for a malformed signature, the signer over the hash
\* that was signed, some unrelated key over any other hash
recover(sig, h) ==
    IF Len(sig) # SigSize \/ sig[SigSize] # 1 THEN NoPublic
    ELSE IF SubSeq(sig, HashSize + 1, 2 * HashSize) = h
         THEN SubSeq(sig, 1, HashSize) \o SubSeq(sig, 1, HashSize)
         ELSE [j \in 1..PublicSize |-> 255]

encrypt(pub, plain) == pub \o plain

\* decrypt(k, cipher, plain): false (or a caught exception) unless the
\* ciphertext was made for k's public key
decrypt(k, cipher) ==
    IF NonZero(k) /\ Len(cipher) >= PublicSize
       /\ SubSeq(cipher, 1, PublicSize) = toPublic(k)
    THEN [ok |-> TRUE, plain |-> SubSeq(cipher, PublicSize + 1, Len(cipher))]
    ELSE [ok |-> FALSE, plain |-> <<>>]

-----------------------------------------------------------------------------
(* Message: populate, the opening constructor, seal.                        *)

\* a default-constructed Message; operator bool is false on it
AbsentMessage == [payload |-> <<>>, from |-> NoPublic, to |-> NoPublic]

\* Message::operator bool
Present(m) == Len(m.payload) # 0 \/ NonZero(m.from) \/ NonZero(m.to)

\* flags & ContainsSignature
HasSignatureFlag(flags) == (flags \div ContainsSignature) % 2 = 1

\* mutant: the size test off by one, a frame of flags byte and signature alone
\* no longer counts as signed
FitsSignatureStrict(size) == size > SigSize + 1

\* _data.size() >= sizeof(Signature) + 1
FitsSignature(size) == size >= SigSize + 1

\* Message::populate: [ok, payload, from] for the decoded frame _data
populate(data) ==
    IF Len(data) = 0 THEN [ok |-> FALSE, payload |-> <<>>, from |-> NoPublic]
    ELSE IF HasSignatureFlag(data[1]) /\ FitsSignature(Len(data))
    THEN LET payload == cropped(data, 1, Len(data) - SigSize - 1)
             h == sha3(payload)
             sig == SubSeq(data, 2 + Len(payload), 1 + Len(payload) + SigSize)
             from == recover(sig, h)
         IN  IF ~NonZero(from)
             THEN [ok |-> FALSE, payload |-> <<>>, from |-> from]
             ELSE [ok |-> TRUE, payload |-> payload, from |-> from]
    ELSE [ok |-> TRUE, payload |-> croppedFrom(data, 1), from |-> NoPublic]

\* the key of the topic-indexed branch: _s ^ h256(data.cropped(32 * _topicIndex, 32))
TopicKey(e, s, topicIndex) ==
    Xor256(s, h256(cropped(e.data, Mul32(topicIndex), HashSize)))

\* the first half of the constructor: which decrypt runs, and its result
Decode(e, s, topicIndex) ==
    IF NonZero(s) THEN decrypt(s, e.data)
    ELSE IF Len(e.data) < Len(e.topics) * HashSize
    THEN [ok |-> FALSE, plain |-> <<>>]
    ELSE decrypt(TopicKey(e, s, topicIndex),
                 croppedFrom(e.data, HashSize * Len(e.topics)))

\* mutant: m_to assigned whether or not populate succeeded
MessageFromAlwaysTo(e, s, topicIndex) ==
    LET dec == Decode(e, s, topicIndex)
        pop == populate(dec.plain)
    IN  IF ~dec.ok
        THEN [m |-> AbsentMessage, decoded |-> FALSE, b |-> <<>>]
        ELSE [m |-> [payload |-> pop.payload, from |-> pop.from, to |-> toPublic(s)],
              decoded |-> TRUE, b |-> dec.plain]

\* Message::Message(Envelope const&, Secret const&, unsigned): the Message
\* built, with the local buffer b and whether populate was reached
MessageFrom(e, s, topicIndex) ==
    LET dec == Decode(e, s, topicIndex)
        pop == populate(dec.plain)
    IN  IF ~dec.ok
        THEN [m |-> AbsentMessage, decoded |-> FALSE, b |-> <<>>]
        ELSE [m |-> [payload |-> pop.payload, from |-> pop.from,
                     to |-> IF pop.ok THEN toPublic(s) ELSE NoPublic],
              decoded |-> TRUE, b |-> dec.plain]

\* mutant: the signature appended but the flag left clear
SealInputUnflagged(payload, from) ==
    IF NonZero(from)
    THEN <<0>> \o payload \o sign(from, sha3(payload))
    ELSE <<0>> \o payload

\* seal's frame: the flags byte, the payload and, with a sender, the signature
SealInput(payload, from) ==
    IF NonZero(from)
    THEN <<ContainsSignature>> \o payload \o sign(from, sha3(payload))
    ELSE <<0>> \o payload

\* seal's envelope before proveWork: encrypted for m_to when there is one
SealEnvelope(payload, to, from, topic, ttl, t) ==
    [expiry |-> t + ttl, ttl |-> ttl, topics |-> topic,
     data |-> IF NonZero(to) THEN encrypt(to, SealInput(payload, from))
              ELSE SealInput(payload, from),
     nonce |-> 0]

-----------------------------------------------------------------------------
(* Envelope: proveWork's search, one candidate at a time, and workProved.   *)

NoSearch ==
    [pc |-> "idle", n |-> 0, i |-> 0, bestBitSet |-> 0, then |-> 0,
     d0 |-> <<>>, stored |-> FALSE, roundAt |-> 0]

\* proveWork's locals on reaching the loop:  d[0], n = 0, bestBitSet = 0, then
SearchEntry(e, ms, t) ==
    [pc |-> "check", n |-> 0, i |-> 0, bestBitSet |-> 0, then |-> t + ms,
     d0 |-> sha3(WithoutNonce(e)), stored |-> FALSE, roundAt |-> 0]

\* mutant: the loop test lets a round start at the deadline itself
AtOrBeforeDeadline(t, then) == t <= then

\* the outer loop's test:  now() < then
BeforeDeadline(t, then) == t < then

\* the test that replaces the running best:  fbs > bestBitSet
Better(fbs, bestBitSet) == fbs > bestBitSet

\* dev::sha3(chuck).firstBitSet() with candidate v in d[1]
CandidateScore(d0, v, le) == firstBitSet(sha3(d0 \o NonceBlock(v, le)))

\* Envelope::workProved
workProved(e) ==
    firstBitSet(sha3(sha3(WithoutNonce(e)) \o toBigEndian256(e.nonce)))

-----------------------------------------------------------------------------
(* Inputs.                                                                  *)

PayloadBytes == {3, 200}
Payloads == UNION {[1..k -> PayloadBytes] : k \in 0..MaxPayload}
Topics == {[j \in 1..k |-> 10 + j] : k \in 0..MaxTopics}
Senders == {NoSecret, Secret(1)}
Recipients == {NoPublic, toPublic(Secret(2))}
Secrets == {NoSecret, Secret(1), Secret(2)}
\* topic indexes in and out of range, and one whose product with 32 wraps
TopicIndexes == (0..MaxTopics) \cup {134217728}
\* a deadline that has passed on entry and one that lies ahead (the unit of
\* time is free: how many rounds fit before it is up to the clock)
Budgets == {0, 1}

NoOrigin ==
    [kind |-> "none", payload |-> <<>>, from |-> NoSecret, to |-> NoPublic,
     slot |-> 0, blind |-> NoSecret, env0 |-> NoEnvelope]

NoOpening ==
    [done |-> FALSE, s |-> NoSecret, topicIndex |-> 0,
     decoded |-> FALSE, b |-> <<>>]

\* what may follow a frame's payload: nothing, the sender's signature, a
\* signature over another hash, one that does not recover, one a byte short
Tails(payload) ==
    {<<>>,
     sign(Secret(1), sha3(payload)),
     sign(Secret(1), sha3(payload \o <<9>>)),
     NoSignature,
     Zero(SigSize - 1)}

WireFrames ==
    {<<>>} \cup
    UNION {{<<f>> \o payload \o t : t \in Tails(payload)} :
              <<f, payload>> \in (0..3) \X Payloads}

WireOrigin(kind, payload, slot, blind, e) ==
    [kind |-> kind, payload |-> payload, from |-> NoSecret, to |-> NoPublic,
     slot |-> slot, blind |-> blind, env0 |-> e]

WireEnvelope(topic, data, nonce) ==
    [expiry |-> 1, ttl |-> 1, topics |-> topic, data |-> data, nonce |-> nonce]

\* the layout the topic-indexed branch reads: one 32-byte key slot per topic,
\* slot i holding the key blinded by the recipients' secret, then the
\* ciphertext under that key
BroadcastData(k, i, blind, key, frame) ==
    [j \in 1..(HashSize * k) |->
        (IF (j - 1) \div HashSize = i THEN Xor256(key, blind) ELSE Secret(99))
            [((j - 1) % HashSize) + 1]]
    \o encrypt(toPublic(key), frame)

TopicKeySecret == Secret(77)

WireRecords ==
    {[env |-> WireEnvelope(tp, frame, 0),
      origin |-> WireOrigin("wire", <<>>, 0, NoSecret, WireEnvelope(tp, frame, 0))] :
        <<tp, frame>> \in Topics \X WireFrames}
    \cup
    {[env |-> WireEnvelope(<<11>>, encrypt(toPublic(Secret(2)), frame), 0),
      origin |-> WireOrigin("wire", <<>>, 0, NoSecret,
                            WireEnvelope(<<11>>, encrypt(toPublic(Secret(2)), frame), 0))] :
        frame \in WireFrames}
    \cup
    UNION {{[env |-> WireEnvelope(tp, BroadcastData(Len(tp), i, x[1], TopicKeySecret,
                                                    SealInput(x[2], x[3])), 0),
             origin |-> WireOrigin("broadcast", x[2], i, x[1],
                            WireEnvelope(tp, BroadcastData(Len(tp), i, x[1], TopicKeySecret,
                                                           SealInput(x[2], x[3])), 0))] :
                i \in 0..(Len(tp) - 1), x \in {NoSecret, Secret(1)} \X Payloads \X Senders} :
              tp \in Topics}
    \cup
    {[env |-> WireEnvelope(tp, Zero(HashSize * Len(tp) - 1), 0),
      origin |-> WireOrigin("wire", <<>>, 0, NoSecret,
                            WireEnvelope(tp, Zero(HashSize * Len(tp) - 1), 0))] :
        tp \in {t \in Topics : Len(t) > 0}}

-----------------------------------------------------------------------------
(* The state machine.                                                       *)

Init ==
    /\ env = NoEnvelope
    /\ origin = NoOrigin
    /\ msg = AbsentMessage
    /\ opening = NoOpening
    /\ pw = NoSearch
    /\ now = 0
    /\ littleEndian \in BOOLEAN
    /\ proved = <<>>

\* Message::seal up to its call of proveWork, which the search steps finish
Seal(payload, to, from, topic, ttl, workToProve) ==
    /\ env = NoEnvelope
    /\ pw.pc = "idle"
    /\ env' = SealEnvelope(payload, to, from, topic, ttl, now)
    /\ origin' = [kind |-> "seal", payload |-> payload, from |-> from, to |-> to,
                  slot |-> 0, blind |-> NoSecret,
                  env0 |-> SealEnvelope(payload, to, from, topic, ttl, now)]
    /\ pw' = SearchEntry(env', workToProve, now)
    /\ UNCHANGED <<msg, opening, now, littleEndian, proved>>

\* Envelope::Envelope(RLP const&): the five fields as they came off the wire
Receive(w) ==
    /\ env = NoEnvelope
    /\ pw.pc = "idle"
    /\ env' = w.env
    /\ origin' = w.origin
    /\ UNCHANGED <<msg, opening, pw, now, littleEndian, proved>>

\* Envelope::proveWork called on an envelope at rest
ProveWork(ms) ==
    /\ env # NoEnvelope
    /\ pw.pc = "idle"
    /\ pw' = SearchEntry(env, ms, now)
    /\ UNCHANGED <<env, origin, msg, opening, now, littleEndian, proved>>

\* the outer loop's test, before each round of 1024 candidates
SearchCheck ==
    /\ pw.pc = "check"
    /\ IF BeforeDeadline(now, pw.then)
       THEN /\ pw.n < MaxBatches * BatchSize
            /\ pw' = [pw EXCEPT !.pc = "eval", !.i = 0, !.roundAt = now]
       ELSE pw' = [pw EXCEPT !.pc = "done"]
    /\ UNCHANGED <<env, origin, msg, opening, now, littleEndian, proved>>

\* one pass of the inner loop's body, then  ++i, ++n
SearchStep ==
    /\ pw.pc = "eval"
    /\ LET fbs == CandidateScore(pw.d0, pw.n, littleEndian)
           better == Better(fbs, pw.bestBitSet)
       IN  /\ env' = IF better THEN [env EXCEPT !.nonce = pw.n] ELSE env
           /\ pw' = [pw EXCEPT
                        !.bestBitSet = IF better THEN fbs ELSE @,
                        !.stored = better \/ @,
                        !.i = @ + 1,
                        !.n = @ + 1,
                        !.pc = IF pw.i + 1 < BatchSize THEN "eval" ELSE "check"]
    /\ UNCHANGED <<origin, msg, opening, now, littleEndian, proved>>

\* the clock moves: before an envelope exists, and while a search awaits it
Tick ==
    /\ \/ env = NoEnvelope /\ now < 1
       \/ pw.pc \in {"check", "eval"} /\ now < pw.then
    /\ now' = now + 1
    /\ UNCHANGED <<env, origin, msg, opening, pw, littleEndian, proved>>

\* the constructor builds a fresh Message from the envelope, which it leaves
\* as it was: one construction per behaviour shows every (envelope, Message)
Opened(s, topicIndex) ==
    /\ env # NoEnvelope
    /\ ~opening.done
    /\ pw.pc \in {"idle", "done"}
    /\ LET r == MessageFrom(env, s, topicIndex)
       IN  /\ msg' = r.m
           /\ opening' = [done |-> TRUE, s |-> s,
                          topicIndex |-> topicIndex,
                          decoded |-> r.decoded, b |-> r.b]
    /\ UNCHANGED <<env, origin, pw, now, littleEndian, proved>>

\* Message(envelope, secret, topicIndex)
MessageOpen(s, topicIndex) == Opened(s, topicIndex)

\* Envelope::open(secret): Message(*this, secret), the index left to its default
EnvelopeOpen(s) == \E topicIndex \in TopicIndexes : Opened(s, topicIndex)

\* workProved() on the envelope proveWork has returned
WorkProved ==
    /\ pw.pc = "done"
    /\ Len(proved) < 2
    /\ proved' = Append(proved, [batches |-> pw.n \div BatchSize,
                                 work |-> workProved(env)])
    /\ pw' = [pw EXCEPT !.pc = "proved"]
    /\ UNCHANGED <<env, origin, msg, opening, now, littleEndian>>

\* a second envelope of the same content: the record read again (or the
\* message sealed again), at rest, for another proveWork
Again ==
    /\ pw.pc = "proved"
    /\ Len(proved) < 2
    /\ env' = origin.env0
    /\ pw' = NoSearch
    /\ UNCHANGED <<origin, msg, opening, now, littleEndian, proved>>

Next ==
    \/ \E payload \in Payloads, to \in Recipients, from \in Senders,
          topic \in Topics, ttl \in {60} :
          Seal(payload, to, from, topic, ttl, 0)
    \/ \E w \in WireRecords : Receive(w)
    \/ SearchCheck
    \/ Tick
    \/ \E s \in Secrets, topicIndex \in TopicIndexes : MessageOpen(s, topicIndex)
    \/ \E s \in Secrets : EnvelopeOpen(s)

Spec == Init /\ [][Next]_vars

\* envelopes whose nonce field already holds a value when proveWork is called
PriorNonces == {0, 4706}

SearchRecords ==
    {[env |-> WireEnvelope(<<>>, <<0, 3>>, v),
      origin |-> WireOrigin("wire", <<>>, 0, NoSecret, WireEnvelope(<<>>, <<0, 3>>, v))] :
        v \in PriorNonces}

NextSearch ==
    \/ \E workToProve \in Budgets :
          Seal(<<3>>, NoPublic, NoSecret, <<>>, 60, workToProve)
    \/ \E w \in SearchRecords : Receive(w)
    \/ \E ms \in Budgets : ProveWork(ms)
    \/ SearchCheck
    \/ SearchStep
    \/ Tick
    \/ WorkProved
    \/ Again

SpecSearch == Init /\ [][NextSearch]_vars

-----------------------------------------------------------------------------
(* Properties of sealing and opening, checked under Spec.                   *)

\* the secret that matches seal's recipient: its private key, or no secret
\* when the Message had no recipient
MatchingSecret(to, s) == IF NonZero(to) THEN toPublic(s) = to ELSE s = NoSecret

\* C1: opening a sealed envelope with the secret that matches its recipient
\* (present or absent) yields a Message whose payload is the sealed payload.
C1_SealOpenRoundTrip ==
    (origin.kind = "seal" /\ opening.done /\ MatchingSecret(origin.to, opening.s))
        => msg.payload = origin.payload

\* C2: a sealed envelope that opens to a Message carries as sender the public
\* key of seal's sender secret, and no sender when seal had none, whatever
\* secret and index the opener passed.
C2_SignatureAuthenticity ==
    (origin.kind = "seal" /\ opening.done /\ Present(msg))
        => msg.from = toPublic(origin.from)

C2_Witness ==
    /\ origin.kind = "seal"
    /\ NonZero(origin.from)
    /\ opening.done
    /\ Len(msg.payload) > 0
    /\ msg.from = toPublic(origin.from)

\* the causes of failure C3 lists, read off the envelope and the arguments
AsymmetricFails(e, s) == NonZero(s) /\ ~decrypt(s, e.data).ok
DataTooShort(e, s) == ~NonZero(s) /\ Len(e.data) < HashSize * Len(e.topics)
IndexOutOfRange(e, s, topicIndex) == ~NonZero(s) /\ topicIndex >= Len(e.topics)
SymmetricFails(e, s, topicIndex) ==
    /\ ~NonZero(s)
    /\ topicIndex < Len(e.topics)
    /\ ~decrypt(Xor256(s, h256(cropped(e.data, HashSize * topicIndex, HashSize))),
                croppedFrom(e.data, HashSize * Len(e.topics))).ok
SignedFrame(b) == Len(b) >= SigSize + 1 /\ b[1] % 2 = 1
FramePayload(b) ==
    IF SignedFrame(b) THEN SubSeq(b, 2, Len(b) - SigSize) ELSE SubSeq(b, 2, Len(b))
FrameSigner(b) ==
    recover(SubSeq(b, Len(b) - SigSize + 1, Len(b)), sha3(FramePayload(b)))
EmptyFrame == opening.decoded /\ Len(opening.b) = 0
SignatureFails ==
    opening.decoded /\ SignedFrame(opening.b) /\ ~NonZero(FrameSigner(opening.b))

\* C3: whenever one of the listed causes of failure holds of an open, the
\* Message built is absent: no payload, no sender, no recipient.
C3_FailureYieldsAbsence ==
    (/\ opening.done
     /\ \/ AsymmetricFails(env, opening.s)
        \/ DataTooShort(env, opening.s)
        \/ IndexOutOfRange(env, opening.s, opening.topicIndex)
        \/ SymmetricFails(env, opening.s, opening.topicIndex)
        \/ EmptyFrame
        \/ SignatureFails)
        => msg = AbsentMessage

\* C4: after any open the recipient is present exactly when the open went
\* through the direct branch and succeeded, and it is then the public key of
\* the secret passed; the topic-indexed branch never sets it.
C4_RecipientOnlyDirect ==
    opening.done =>
        /\ NonZero(msg.to) <=>
              (NonZero(opening.s) /\ opening.decoded
                   /\ ~EmptyFrame /\ ~SignatureFails)
        /\ NonZero(msg.to) => msg.to = toPublic(opening.s)
        /\ ~NonZero(opening.s) => msg.to = NoPublic

C4_Witness ==
    /\ opening.done
    /\ NonZero(opening.s)
    /\ msg.to = toPublic(opening.s)
    /\ NonZero(msg.to)

\* C5: an envelope laid out for topic-indexed opening (k key slots, slot i
\* blinded with a secret, then the ciphertext) gives up its payload to the
\* open that passes that secret and index i, and to no other index or secret.
C5_BroadcastTopicIndex ==
    (origin.kind = "broadcast" /\ opening.done) =>
        IF opening.s = origin.blind /\ opening.topicIndex = origin.slot
        THEN msg.payload = origin.payload
        ELSE msg = AbsentMessage

\* C10 as stated: a decoded frame with the signature flag and at least 65
\* bytes after the flags byte yields the bytes between as payload and the
\* recovered key as sender; any other non-empty frame yields all that follows
\* the flags byte as payload and no sender; an empty frame yields absence.
C10_FrameParsingAsStated ==
    opening.decoded =>
        IF Len(opening.b) = 0 THEN msg = AbsentMessage
        ELSE /\ msg.payload = FramePayload(opening.b)
             /\ msg.from = IF SignedFrame(opening.b) THEN FrameSigner(opening.b)
                           ELSE NoPublic

\* C10 amended: as stated, when the signature of a signed frame recovers;
\* when it does not recover the Message is absent.
C10_FrameParsing ==
    opening.decoded =>
        IF Len(opening.b) = 0 \/ SignatureFails THEN msg = AbsentMessage
        ELSE /\ msg.payload = FramePayload(opening.b)
             /\ msg.from = IF SignedFrame(opening.b) THEN FrameSigner(opening.b)
                           ELSE NoPublic

\* a frame of exactly flags byte and signature, and one a byte short of it
C10_Witness ==
    /\ opening.decoded
    /\ Len(opening.b) = SigSize + 1
    /\ opening.b[1] % 2 = 1
    /\ NonZero(msg.from)
    /\ msg.payload = <<>>

-----------------------------------------------------------------------------
(* Properties of the proof-of-work search, checked under SpecSearch.        *)

\* C6: of two finished runs over the same envelope content, the one that ran
\* at least as many rounds has at least as large a workProved().
C6_MonotoneInBudget ==
    \A a, b \in 1..Len(proved) :
        proved[b].batches >= proved[a].batches => proved[b].work >= proved[a].work

\* C7: a round of candidates starts only while the clock is before the
\* deadline, so the candidates evaluated after it all belong to the one round
\* in flight (at most 1024 of them); the search ends only once the deadline
\* has passed, having evaluated a multiple of 1024 candidates.
C7_DeadlineRespected ==
    /\ pw.pc = "eval" => (pw.roundAt < pw.then /\ pw.i < BatchSize)
    /\ pw.pc \in {"done", "proved"} => (now >= pw.then /\ pw.n % BatchSize = 0)

\* the deadline has passed and the round in flight is still evaluating
C7_Witness ==
    /\ pw.pc = "eval"
    /\ now >= pw.then
    /\ pw.roundAt < pw.then
    /\ pw.i > 0

\* C8: on return the nonce is one this call's search stored, one of the
\* candidates it evaluated.
C8_AlwaysStoresNonce ==
    pw.pc = "done" => (pw.stored /\ env.nonce \in 0..(pw.n - 1))

\* the score of candidate v as C9 states it: big-endian, v in the low 32 bits
BigEndianScore(v) == firstBitSet(sha3(sha3(WithoutNonce(env)) \o toBigEndian256(v)))

\* C9: after a search over candidates 0 .. N-1 the nonce is the smallest
\* candidate of maximal score, and workProved() is that score.
C9_FirstBestVerified ==
    (pw.pc = "done" /\ pw.n > 0) =>
        /\ env.nonce \in 0..(pw.n - 1)
        /\ \A v \in 0..(pw.n - 1) :
              /\ BigEndianScore(v) <= BigEndianScore(env.nonce)
              /\ v < env.nonce => BigEndianScore(v) < BigEndianScore(env.nonce)
        /\ workProved(env) = BigEndianScore(env.nonce)

=============================================================================
